---- MODULE Spec2Model ----
(***************************************************************************)
(* Conversational-context store (app/services/context_manager.py) and the  *)
(* reflect-and-revise loop (app/services/improvement_service.py) with its  *)
(* caller (app/services/facade/code_generation_facade_service.py).         *)
(*                                                                         *)
(* Data abstraction: timestamps are whole hours; a score is the number of  *)
(* tenths (7.5 is 75); a response text is its identity (0 is the initial   *)
(* response, n > 0 the n-th text the model produced in the call); a        *)
(* generated code is its sequence of lines; a ConversationTurn keeps       *)
(* turn_id, generated_code, filename and the dependencies of its metadata; *)
(* a turn_id (uuid4) is the ordinal of the turn within its session, a      *)
(* session_id (uuid4) the ordinal of the create_session call.              *)
(***************************************************************************)
EXTENDS Integers, Sequences, FiniteSets, TLC

-----------------------------------------------------------------------------
(* Bounds of the model *)

MaxAppends == 12        \* add_conversation_turn calls accepted per session
MaxCodeTurns == 2       \* only the first MaxCodeTurns turns of a session may carry code
MaxFaults == 1         \* _save_session calls that fail
MaxTime == 36           \* the clock stops here
TickHours == 12         \* the clock advances in steps of this many hours
MaxVariedReflects == 1  \* Reflect steps of a call whose reply is drawn from all of ReflectReplies
MaxListedTurns == 1     \* appends per session where two sessions are listed and cleaned up
MaxFileTurns == 3       \* appends per session where the inputs are drawn from FileInputs
MaxReplyLen == 6        \* tokens of a model reply handed to _parse_response
MaxRaceTurns == 3       \* turns built for a session that two processes append to

(* Program constants *)

max_context_turns == 10
session_timeout == 24
DefaultMaxIterations == 3
DefaultMinAcceptableScore == 75
DefaultScore == 50
MinIterations == 1
MaxIterations == 10
MaxThreshold == 100
RecentWindow == 5
MinExplanationLen == 10

-----------------------------------------------------------------------------
(* Values *)

NoneStr == "None"
NoSession == [absent |-> TRUE]
NoContext == [no_context |-> TRUE]
Corrupt == [corrupt |-> TRUE]

\* Every operation but get_all_sessions and cleanup_expired_sessions indexes
\* the cache and the durable records by its own session_id and touches no
\* other session: Spec, SpecGen, SpecFiles and SpecConfig follow the first
\* session only, SpecSessions follows both.
SessionIds == {1, 2}
FirstSession == {1}
Users == {NoneStr, "alice"}

Line(kw, mod) == [kw |-> kw, mod |-> mod]
NoCode == << >>
CodeA == << Line("import", <<"requests">>),
            Line("from", <<"requests", "adapters">>),
            Line("import", <<"os">>),
            Line("from", <<"typing">>) >>
CodeB == << Line("from", <<"fastapi">>),
            Line("import", <<"requests">>) >>
PlainInput == [code |-> NoCode, filename |-> NoneStr]
TurnInputs == { PlainInput,
                [code |-> CodeA, filename |-> "a.py"] }
\* generated code with and without a filename, a filename without code
FileInputs == TurnInputs \cup { [code |-> CodeB, filename |-> "b.py"],
                                [code |-> CodeB, filename |-> NoneStr],
                                [code |-> NoCode, filename |-> "c.py"] }

SaveOutcomes == {"ok", "open_failed", "dump_failed"}
Summaries == {"a todo app"}

-----------------------------------------------------------------------------
VARIABLES
    sessions,       \* ContextManager.sessions: the in-process cache
    disk,           \* contexts/<session_id>.json: the durable records
    now,            \* datetime.now(), in hours
    nextId,         \* number of create_session calls so far
    turnSeq,        \* per session: number of turns constructed so far
    ret,            \* the last store operation and what it returned
    prev,           \* the session object the last store operation started from
    lost,           \* per session: some _save_session of it has failed
    faults,         \* number of _save_session calls that have failed
    pc,             \* the model call the generate request in flight awaits, or "idle"
    rq,             \* the locals of the generate request in flight (or of the last one)
    out,            \* what the last generate request gave its caller
    improvement_history,    \* ImprovementService.improvement_history
    max_iterations,         \* ImprovementService.max_iterations
    min_acceptable_score,   \* ImprovementService.min_acceptable_score
    requests,       \* number of generate requests so far
    parked,         \* the generate request that waits while the one of pc, rq, out runs
    peer,           \* a second process with a ContextManager of its own on the same records
    writing         \* the record the running process has open for writing

storeVars == <<sessions, disk, now, nextId, turnSeq, ret, prev, lost, faults>>
concVars == <<parked, peer, writing>>
genVars == <<pc, rq, out, improvement_history, max_iterations, min_acceptable_score, requests, concVars>>
vars == <<storeVars, genVars>>

-----------------------------------------------------------------------------
(* Pure helpers of ContextManager *)

StdLib == {"os", "sys", "json", "time", "datetime", "re", "random", "typing"}

RECURSIVE _extract_dependencies(_)
_extract_dependencies(code) ==
    IF code = << >> THEN << >>
    ELSE LET line == Head(code)
             rest == _extract_dependencies(Tail(code))
         IN  IF line.kw \in {"import", "from"} /\ Head(line.mod) \notin StdLib
             THEN <<Head(line.mod)>> \o rest
             ELSE rest

\* the standard-library list of the generate route
RouteStdLib == {"os", "sys", "json", "time", "datetime", "re", "random", "math", "collections"}

RECURSIVE RouteImports(_)
RouteImports(code) ==
    IF code = << >> THEN << >>
    ELSE LET line == Head(code)
             rest == RouteImports(Tail(code))
         IN  IF line.kw \in {"import", "from"} /\ Head(line.mod) \notin RouteStdLib
             THEN <<Head(line.mod)>> \o rest
             ELSE rest

_detect_language(code) ==
    IF \E i \in 1 .. Len(code) : code[i].kw \in {"def", "import", "from"}
    THEN "python"
    ELSE "unknown"

_detect_framework(code) ==
    IF \E i \in 1 .. Len(code) : "fastapi" \in {code[i].mod[j] : j \in 1 .. Len(code[i].mod)}
    THEN "fastapi"
    ELSE NoneStr

Range(seq) == {seq[i] : i \in 1 .. Len(seq)}

\* list(set(xs)): the distinct elements, in an order the hash decides
ListSet(xs) ==
    CHOOSE s \in [1 .. Cardinality(Range(xs)) -> Range(xs)] : Range(s) = Range(xs)

\* _extract_dependencies of the generate route (python): the list it stores
\* as metadata["dependencies"] of the turn
route_extract_dependencies(code) == ListSet(RouteImports(code))

\* an update that builds a new CodeContext for every turn that carries code
_update_code_context_Replace(session, turn, request) ==
    IF turn.generated_code = NoCode THEN session
    ELSE
        LET ctx1 == [language |-> _detect_language(turn.generated_code),
                     framework |-> _detect_framework(turn.generated_code),
                     project_type |-> "unknown",
                     current_files |-> << >>,
                     dependencies |-> _extract_dependencies(turn.generated_code),
                     main_functionality |-> request]
            ctx2 == IF turn.filename # NoneStr
                    THEN [ctx1 EXCEPT !.current_files = Append(@, turn.filename)]
                    ELSE ctx1
        IN  [session EXCEPT !.code_context = ctx2]

\* an update that appends the filename without looking for it in current_files
_update_code_context_NoFileTest(session, turn, request) ==
    IF turn.generated_code = NoCode THEN session
    ELSE
        LET dependencies == _extract_dependencies(turn.generated_code)
            ctx1 == IF session.code_context = NoContext
                    THEN [language |-> _detect_language(turn.generated_code),
                          framework |-> _detect_framework(turn.generated_code),
                          project_type |-> "unknown",
                          current_files |-> << >>,
                          dependencies |-> dependencies,
                          main_functionality |-> request]
                    ELSE [session.code_context EXCEPT
                            !.dependencies = ListSet(@ \o dependencies)]
            ctx2 == IF turn.filename # NoneStr
                    THEN [ctx1 EXCEPT !.current_files = Append(@, turn.filename)]
                    ELSE ctx1
        IN  [session EXCEPT !.code_context = ctx2]

_update_code_context(session, turn, request) ==
    IF turn.generated_code = NoCode THEN session
    ELSE
        LET language == _detect_language(turn.generated_code)
            framework == _detect_framework(turn.generated_code)
            dependencies == _extract_dependencies(turn.generated_code)
            ctx1 == IF session.code_context = NoContext
                    THEN [language |-> language,
                          framework |-> framework,
                          project_type |-> "unknown",
                          current_files |-> << >>,
                          dependencies |-> dependencies,
                          main_functionality |-> request]
                    ELSE [session.code_context EXCEPT
                            !.dependencies = ListSet(@ \o dependencies)]
            ctx2 == IF turn.filename # NoneStr /\ turn.filename \notin Range(ctx1.current_files)
                    THEN [ctx1 EXCEPT !.current_files = Append(@, turn.filename)]
                    ELSE ctx1
        IN  [session EXCEPT !.code_context = ctx2]

\* a prune that keeps the most recent turns only
PruneTurns_DropFirst(turns) ==
    IF Len(turns) > max_context_turns
    THEN SubSeq(turns, Len(turns) - max_context_turns + 1, Len(turns))
    ELSE turns

\* session.turns after the append and the length limit
PruneTurns(turns) ==
    IF Len(turns) > max_context_turns
    THEN <<turns[1]>> \o SubSeq(turns, Len(turns) - (max_context_turns - 1) + 1, Len(turns))
    ELSE turns

\* asdict(session) as json.dump writes it
AsDict(session) ==
    [session_id |-> session.session_id,
     user_id |-> session.user_id,
     created_at |-> session.created_at,
     last_activity |-> session.last_activity,
     turns |-> session.turns,
     code_context |-> session.code_context,
     session_summary |-> session.session_summary]

\* ConversationSession(**data) with its turns and code_context rebuilt
FromDict(data) ==
    [session_id |-> data.session_id,
     user_id |-> data.user_id,
     created_at |-> data.created_at,
     last_activity |-> data.last_activity,
     turns |-> data.turns,
     code_context |-> data.code_context,
     session_summary |-> data.session_summary]

\* the durable records after _save_session(session); the exception of a
\* failed write is caught and printed, so the caller sees no difference
_save_session(dsk, session, outcome) ==
    CASE outcome = "ok" -> [dsk EXCEPT ![session.session_id] = AsDict(session)]
      [] outcome = "open_failed" -> dsk
      [] outcome = "dump_failed" -> [dsk EXCEPT ![session.session_id] = Corrupt]

Expired(session, t) == t - session.last_activity > session_timeout

\* a delete that empties the whole cache
delete_session_ClearsCache(sess, dsk, sid) ==
    [result |-> dsk[sid] # NoSession,
     sessions |-> [s \in SessionIds |-> NoSession],
     disk |-> [dsk EXCEPT ![sid] = NoSession]]

\* delete_session: [result, sessions, disk]
delete_session(sess, dsk, sid) ==
    [result |-> dsk[sid] # NoSession,
     sessions |-> [sess EXCEPT ![sid] = NoSession],
     disk |-> [dsk EXCEPT ![sid] = NoSession]]

\* a load that answers a record it cannot read with a fresh session
_load_session_Fresh(sess, dsk, sid) ==
    IF dsk[sid] = NoSession
    THEN [session |-> NoSession, sessions |-> sess]
    ELSE IF dsk[sid] = Corrupt
    THEN [session |-> [session_id |-> sid, user_id |-> NoneStr, created_at |-> 0,
                       last_activity |-> 0, turns |-> << >>,
                       code_context |-> NoContext, session_summary |-> ""],
          sessions |-> [sess EXCEPT ![sid] =
                          [session_id |-> sid, user_id |-> NoneStr, created_at |-> 0,
                           last_activity |-> 0, turns |-> << >>,
                           code_context |-> NoContext, session_summary |-> ""]]]
    ELSE [session |-> FromDict(dsk[sid]),
          sessions |-> [sess EXCEPT ![sid] = FromDict(dsk[sid])]]

\* _load_session: [session, sessions]
_load_session(sess, dsk, sid) ==
    IF dsk[sid] = NoSession \/ dsk[sid] = Corrupt
    THEN [session |-> NoSession, sessions |-> sess]
    ELSE [session |-> FromDict(dsk[sid]),
          sessions |-> [sess EXCEPT ![sid] = FromDict(dsk[sid])]]

\* a lookup that hands out a cached session whatever its age
get_session_NoExpiry(sess, dsk, sid, t) ==
    IF sess[sid] # NoSession
    THEN [session |-> sess[sid], sessions |-> sess, disk |-> dsk]
    ELSE LET l == _load_session(sess, dsk, sid)
         IN  [session |-> l.session, sessions |-> l.sessions, disk |-> dsk]

\* get_session: [session, sessions, disk]
get_session(sess, dsk, sid, t) ==
    IF sess[sid] # NoSession
    THEN IF Expired(sess[sid], t)
         THEN LET d == delete_session(sess, dsk, sid)
              IN  [session |-> NoSession, sessions |-> d.sessions, disk |-> d.disk]
         ELSE [session |-> sess[sid], sessions |-> sess, disk |-> dsk]
    ELSE LET l == _load_session(sess, dsk, sid)
         IN  [session |-> l.session, sessions |-> l.sessions, disk |-> dsk]

-----------------------------------------------------------------------------
(* Operations of the session store *)

Ret(op, sid, value, save) ==
    [op |-> op, sid |-> sid, value |-> value, save |-> save, at |-> now]

InitStore ==
    /\ sessions = [s \in SessionIds |-> NoSession]
    /\ disk = [s \in SessionIds |-> NoSession]
    /\ now = 0
    /\ nextId = 0
    /\ turnSeq = [s \in SessionIds |-> 0]
    /\ ret = Ret("init", 0, FALSE, "none")
    /\ prev = NoSession
    /\ lost = [s \in SessionIds |-> FALSE]
    /\ faults = 0

\* the write of _save_session fails at most MaxFaults times
Fault(outcome) ==
    /\ outcome # "ok" => faults < MaxFaults
    /\ faults' = IF outcome # "ok" THEN faults + 1 ELSE faults

\* a new session whose last_activity is not the time of its creation
NewSession_Epoch(sid, user_id, t) ==
    [session_id |-> sid,
     user_id |-> user_id,
     created_at |-> t,
     last_activity |-> 0,
     turns |-> << >>,
     code_context |-> NoContext,
     session_summary |-> ""]

NewSession(sid, user_id, t) ==
    [session_id |-> sid,
     user_id |-> user_id,
     created_at |-> t,
     last_activity |-> t,
     turns |-> << >>,
     code_context |-> NoContext,
     session_summary |-> ""]

CreateSession(user_id, outcome) ==
    /\ nextId + 1 \in SessionIds
    /\ Fault(outcome)
    /\ LET sid == nextId + 1
           session == NewSession(sid, user_id, now)
       IN  /\ nextId' = sid
           /\ sessions' = [sessions EXCEPT ![sid] = session]
           /\ disk' = _save_session(disk, session, outcome)
           /\ ret' = Ret("create", sid, sid, outcome)
           /\ prev' = NoSession
           /\ lost' = [lost EXCEPT ![sid] = (outcome # "ok")]
    /\ UNCHANGED <<now, turnSeq>>

GetSession(sid) ==
    /\ LET g == get_session(sessions, disk, sid, now)
       IN  /\ sessions' = g.sessions
           /\ disk' = g.disk
           /\ ret' = Ret("get", sid, g.session, "none")
    /\ prev' = sessions[sid]
    /\ UNCHANGED <<now, nextId, turnSeq, lost, faults>>

\* turn = ConversationTurn(turn_id=str(uuid.uuid4()), ...)
ConversationTurn(turn_id, input) ==
    [turn_id |-> turn_id,
     generated_code |-> input.code,
     filename |-> input.filename,
     dependencies |-> route_extract_dependencies(input.code)]

\* add_conversation_turn between get_session and _save_session
AppendTurn(session, turn, t) ==
    _update_code_context([session EXCEPT !.turns = PruneTurns(Append(@, turn)),
                                         !.last_activity = t],
                         turn, turn.turn_id)

AddConversationTurn(sid, input, outcome) ==
    /\ turnSeq[sid] < MaxAppends
    /\ input.code # NoCode => turnSeq[sid] < MaxCodeTurns
    /\ LET g == get_session(sessions, disk, sid, now)
       IN  IF g.session = NoSession
           THEN /\ sessions' = g.sessions
                /\ disk' = g.disk
                /\ ret' = Ret("add", sid, FALSE, "none")
                /\ prev' = sessions[sid]
                /\ outcome = "ok"
                /\ UNCHANGED <<turnSeq, lost, faults>>
           ELSE LET turn == ConversationTurn(turnSeq[sid] + 1, input)
                    s2 == AppendTurn(g.session, turn, now)
                IN  /\ Fault(outcome)
                    /\ sessions' = [g.sessions EXCEPT ![sid] = s2]
                    /\ disk' = _save_session(g.disk, s2, outcome)
                    /\ ret' = Ret("add", sid, TRUE, outcome)
                    /\ prev' = g.session
                    /\ turnSeq' = [turnSeq EXCEPT ![sid] = @ + 1]
                    /\ lost' = [lost EXCEPT ![sid] = @ \/ (outcome # "ok")]
    /\ UNCHANGED <<now, nextId>>

\* update_session_summary (it returns None)
UpdateSessionSummary(sid, summary, outcome) ==
    /\ LET g == get_session(sessions, disk, sid, now)
       IN  IF g.session = NoSession
           THEN /\ sessions' = g.sessions
                /\ disk' = g.disk
                /\ ret' = Ret("summary", sid, NoneStr, "none")
                /\ prev' = sessions[sid]
                /\ outcome = "ok"
                /\ UNCHANGED <<lost, faults>>
           ELSE LET s1 == [g.session EXCEPT !.session_summary = summary]
                IN  /\ Fault(outcome)
                    /\ sessions' = [g.sessions EXCEPT ![sid] = s1]
                    /\ disk' = _save_session(g.disk, s1, outcome)
                    /\ ret' = Ret("summary", sid, NoneStr, outcome)
                    /\ prev' = g.session
                    /\ lost' = [lost EXCEPT ![sid] = @ \/ (outcome # "ok")]
    /\ UNCHANGED <<now, nextId, turnSeq>>

DeleteSession(sid) ==
    /\ LET d == delete_session(sessions, disk, sid)
       IN  /\ sessions' = d.sessions
           /\ disk' = d.disk
           /\ ret' = Ret("delete", sid, d.result, "none")
    /\ prev' = sessions[sid]
    /\ UNCHANGED <<now, nextId, turnSeq, lost, faults>>

\* one element of context_parts; the parts of a turn carry its turn_id
Part(kind, turn_id) == [kind |-> kind, turn |-> turn_id]

\* a window that takes the oldest turns
RecentTurns_Oldest(turns) ==
    IF Len(turns) > RecentWindow THEN SubSeq(turns, 1, RecentWindow) ELSE turns

\* recent_turns = session.turns[-5:] if len(session.turns) > 5 else session.turns
RecentTurns(turns) ==
    IF Len(turns) > RecentWindow
    THEN SubSeq(turns, Len(turns) - RecentWindow + 1, Len(turns))
    ELSE turns

RECURSIVE TurnParts(_, _)
TurnParts(recent_turns, include_code) ==
    IF recent_turns = << >> THEN << >>
    ELSE LET turn == Head(recent_turns)
         IN  <<Part("user", turn.turn_id), Part("response", turn.turn_id)>>
             \o (IF include_code /\ turn.generated_code # NoCode /\ turn.filename # NoneStr
                 THEN <<Part("file", turn.turn_id)>> ELSE << >>)
             \o TurnParts(Tail(recent_turns), include_code)

\* get_context_for_llm after its get_session: context_parts, which "\n".join
\* turns into the text; no part is an empty string, so the text is empty
\* exactly when there is no part
get_context_for_llm(session, include_code) ==
    IF session = NoSession THEN << >>
    ELSE LET ctx == session.code_context
         IN  (IF session.session_summary # "" THEN <<Part("summary", 0)>> ELSE << >>)
             \o (IF ctx # NoContext
                 THEN <<Part("project", 0), Part("language", 0)>>
                      \o (IF ctx.framework # NoneStr THEN <<Part("framework", 0)>> ELSE << >>)
                      \o (IF ctx.dependencies # << >> THEN <<Part("libraries", 0)>> ELSE << >>)
                      \o (IF ctx.current_files # << >> THEN <<Part("files", 0)>> ELSE << >>)
                      \o <<Part("functionality", 0)>>
                 ELSE << >>)
             \o <<Part("history", 0)>>
             \o TurnParts(RecentTurns(session.turns), include_code)

GetContextForLLM(sid, include_code) ==
    /\ LET g == get_session(sessions, disk, sid, now)
       IN  /\ sessions' = g.sessions
           /\ disk' = g.disk
           /\ ret' = Ret("context", sid, get_context_for_llm(g.session, include_code), "none")
    /\ prev' = sessions[sid]
    /\ UNCHANGED <<now, nextId, turnSeq, lost, faults>>

\* one entry of the list get_all_sessions returns
SessionInfo(session) ==
    [session_id |-> session.session_id,
     created_at |-> session.created_at,
     last_activity |-> session.last_activity,
     turn_count |-> Len(session.turns),
     has_code_context |-> session.code_context # NoContext]

\* get_all_sessions: the lists sorted() can return.  Entries with equal
\* last_activity keep the iteration order of the cache, which the model does
\* not record: every order of such entries is allowed.
get_all_sessions(sess, user_id) ==
    LET kept == {s \in SessionIds :
                    /\ sess[s] # NoSession
                    /\ ~(user_id # NoneStr /\ sess[s].user_id # user_id)}
        orders == {l \in [1 .. Cardinality(kept) -> kept] :
                    /\ \A i, j \in DOMAIN l : i # j => l[i] # l[j]
                    /\ \A i, j \in DOMAIN l :
                          i < j => sess[l[i]].last_activity >= sess[l[j]].last_activity}
    IN  {[i \in DOMAIN l |-> SessionInfo(sess[l[i]])] : l \in orders}

GetAllSessions(user_id) ==
    /\ \E listing \in get_all_sessions(sessions, user_id) :
          ret' = Ret("list", 0, [user_id |-> user_id, sessions |-> listing], "none")
    /\ prev' = NoSession
    /\ UNCHANGED <<sessions, disk, now, nextId, turnSeq, lost, faults>>

\* a scan that takes every cached session for expired
ExpiredSessions_All(sess, t) == {s \in SessionIds : sess[s] # NoSession}

\* the first loop of cleanup_expired_sessions: expired_sessions
ExpiredSessions(sess, t) ==
    {s \in SessionIds : sess[s] # NoSession /\ Expired(sess[s], t)}

\* cleanup_expired_sessions: [result, sessions, disk]; its second loop calls
\* delete_session for every id of expired_sessions
cleanup_expired_sessions(sess, dsk, t) ==
    LET expired_sessions == ExpiredSessions(sess, t)
    IN  [result |-> Cardinality(expired_sessions),
         sessions |-> [s \in SessionIds |->
                          IF s \in expired_sessions
                          THEN delete_session(sess, dsk, s).sessions[s] ELSE sess[s]],
         disk |-> [s \in SessionIds |->
                      IF s \in expired_sessions
                      THEN delete_session(sess, dsk, s).disk[s] ELSE dsk[s]]]

CleanupExpiredSessions ==
    /\ LET c == cleanup_expired_sessions(sessions, disk, now)
       IN  /\ sessions' = c.sessions
           /\ disk' = c.disk
           /\ ret' = Ret("cleanup", 0, c.result, "none")
    /\ prev' = NoSession
    /\ UNCHANGED <<now, nextId, turnSeq, lost, faults>>

\* the clock
Tick ==
    /\ now + TickHours <= MaxTime
    /\ now' = now + TickHours
    /\ UNCHANGED <<sessions, disk, nextId, turnSeq, ret, prev, lost, faults>>

\* the process ends and a new one starts: ContextManager.__init__
Restart ==
    /\ sessions' = [s \in SessionIds |-> NoSession]
    /\ ret' = Ret("restart", 0, FALSE, "none")
    /\ prev' = NoSession
    /\ UNCHANGED <<disk, now, nextId, turnSeq, lost, faults>>

-----------------------------------------------------------------------------
(* The generate request: code_generation_routes.generate_code, the facade's *)
(* generate_code_with_context and ImprovementService.perform_improvement_cycle. *)
(* One action is the code between two awaited model calls.  The model      *)
(* follows one generate request from the route to its response.            *)

\* Model.complete as the reflection prompt sees it: the call fails, or the
\* reply cannot be turned into a result, or it is a JSON object (with or
\* without a numeric "score"; its "overall_issues" a list of strings, a list of
\* something else, or no list at all), or it is text for the regex fallback
Reply(kind, has_score, score, shape) ==
    [kind |-> kind, has_score |-> has_score, score |-> score, shape |-> shape]
Scores == {30, 75, 120}
Shapes == {"list_of_str", "list_of_other", "not_a_list"}
ReflectReplies ==
    {Reply("call_failed", FALSE, 0, "list_of_str"), Reply("parse_failed", FALSE, 0, "list_of_str"),
     Reply("json", FALSE, 0, "list_of_str"), Reply("text", FALSE, 0, "list_of_str"),
     Reply("text", TRUE, 30, "list_of_str")}
    \cup {Reply("json", TRUE, s, "list_of_str") : s \in Scores}
    \cup {Reply("json", TRUE, 30, sh) : sh \in Shapes}

\* the replies of the Reflect steps after the first MaxVariedReflects of a call
BasicReplies ==
    {Reply("call_failed", FALSE, 0, "list_of_str")}
    \cup {Reply("json", TRUE, s, "list_of_str") : s \in Scores}
    \cup {Reply("json", TRUE, 30, sh) : sh \in Shapes}

\* arguments of set_quality_threshold and set_max_iterations
ThresholdArgs == {-5, 90}
IterationArgs == {0, 2}
\* arguments on both sides of, and between, the bounds of the setters
WideThresholdArgs == {5 * k : k \in -4 .. 24}
WideIterationArgs == (MinIterations - 3) .. (MaxIterations + 3)

Reflection(score, issues, shape) == [score |-> score, issues |-> issues, shape |-> shape]

\* a Reflect that has no default for a failed model call
perform_self_reflection_NoDefault(reply) ==
    CASE reply.kind = "call_failed" -> Reflection(0, << >>, "not_a_list")
      [] reply.kind = "parse_failed" ->
            Reflection(DefaultScore, <<"evaluation error">>, "list_of_str")
      [] reply.kind = "json" ->
            Reflection(IF reply.has_score THEN reply.score ELSE DefaultScore,
                       <<"issue">>, reply.shape)
      [] reply.kind = "text" ->
            Reflection(IF reply.has_score THEN reply.score ELSE DefaultScore,
                       <<"issue extracted by text parsing">>, "list_of_str")

\* perform_self_reflection: the ReflectionResult it returns for a reply
perform_self_reflection(reply) ==
    CASE reply.kind \in {"call_failed", "parse_failed"} ->
            Reflection(DefaultScore, <<"evaluation error">>, "list_of_str")
      [] reply.kind = "json" ->
            Reflection(IF reply.has_score THEN reply.score ELSE DefaultScore,
                       <<"issue">>, reply.shape)
      [] reply.kind = "text" ->
            Reflection(IF reply.has_score THEN reply.score ELSE DefaultScore,
                       <<"issue extracted by text parsing">>, "list_of_str")

\* an acceptance test that rejects a score equal to the threshold
Accepted_Strict(score, threshold) == score > threshold

\* reflection_result.score >= self.min_acceptable_score
Accepted(score, threshold) == score >= threshold

\* a loop that runs one iteration too many
LoopContinues_OneMore(iteration, n) == iteration + 1 <= n

\* for iteration in range(self.max_iterations): is there an iteration after `iteration`
LoopContinues(iteration, n) == iteration + 1 < n

\* _generate_improved_response: what it returns when the model call is over
ImprovedResponse(ok, original_response, reply_text) ==
    IF ok THEN reply_text ELSE original_response

\* a facade that swallows the failure of the initial generation
InitialGeneration_Swallowed(ok) == "continue"

\* the facade's try/except around the initial generation
InitialGeneration(ok) == IF ok THEN "continue" ELSE "raise"

\* the prompt of _generate_improved_response iterates over issues and suggestions
PromptRaises(reflection) == reflection.shape = "not_a_list"

\* _generate_improved_response assigns improvement_history_guidance only
\* where the context text is not empty or the session's history has records,
\* and its prompt reads the variable in every case
GuidanceUnbound(context_info, recent_iterations) ==
    context_info = << >> /\ recent_iterations = << >>

\* improvement_reason joins the first two issues
RecordRaises(reflection) == reflection.shape = "list_of_other"

NoReflection == Reflection(0, << >>, "list_of_str")

\* a record that is numbered from 0 and keeps the revised text on both sides
ImprovementIteration_Unchained(iteration, current_response, reflection_result, improved_response) ==
    [iteration |-> iteration,
     original_response |-> improved_response,
     reflection_result |-> reflection_result,
     improved_response |-> improved_response]

\* iteration_record = ImprovementIteration(iteration=iteration + 1, ...)
ImprovementIteration(iteration, current_response, reflection_result, improved_response) ==
    [iteration |-> iteration + 1,
     original_response |-> current_response,
     reflection_result |-> reflection_result,
     improved_response |-> improved_response]

NoRequest ==
    [sid |-> 0, imp |-> FALSE, n |-> 0, iteration |-> 0, initial |-> 0, current |-> 0,
     texts |-> 0, reflection |-> NoReflection, iterations |-> << >>,
     gen |-> "none", cycle |-> "none", reflects |-> 0, revises |-> 0, calls |-> 0,
     first |-> [seen |-> FALSE, score |-> 0, threshold |-> 0],
     lastReflect |-> "none", preFail |-> {}, hist0 |-> << >>, turns0 |-> 0,
     reflected |-> 0]

NoOut == [status |-> "none", stage |-> "none", text |-> 0]
Out(status, stage, text) == [status |-> status, stage |-> stage, text |-> text]

\* no second request, no second process, no record open
NoParked == [pc |-> "idle", rq |-> NoRequest, out |-> NoOut]
NotWriting == [session |-> NoSession, torn |-> FALSE]
NoPeer == [proc |-> 2, sessions |-> [s \in SessionIds |-> NoSession], writing |-> NotWriting]

InitGen ==
    /\ pc = "idle"
    /\ rq = NoRequest
    /\ out = NoOut
    /\ parked = NoParked
    /\ peer = NoPeer
    /\ writing = NotWriting
    /\ improvement_history = [s \in SessionIds |-> << >>]
    /\ max_iterations = DefaultMaxIterations
    /\ min_acceptable_score = DefaultMinAcceptableScore
    /\ requests = 0

\* an exception reaches generate_code's except clause: HTTP 500, no turn is added
RequestFails(stage) ==
    /\ pc' = "idle"
    /\ out' = Out("error", stage, 0)

\* the facade returns `text`; generate_code writes the file and adds the turn
RequestSucceeds(text, input, outcome) ==
    /\ pc' = "idle"
    /\ out' = Out("ok", "done", text)
    /\ AddConversationTurn(rq.sid, input, outcome)

\* a loop that hands every Reflect the initial response
AwaitReflect_Initial(r) ==
    /\ pc' = "reflect"
    /\ rq' = [r EXCEPT !.reflects = @ + 1, !.calls = @ + 1, !.reflected = r.initial]
    /\ GetSession(r.sid)

\* perform_self_reflection(current_response, ...) up to its model call
AwaitReflect(r) ==
    /\ pc' = "reflect"
    /\ rq' = [r EXCEPT !.reflects = @ + 1, !.calls = @ + 1, !.reflected = r.current]
    /\ GetSession(r.sid)

\* a history that keeps the records of the last call only
ExtendHistory_Replace(history, session_id, iterations) ==
    [history EXCEPT ![session_id] = iterations]

\* a history that takes the records of a call last one first
ExtendHistory_Reversed(history, session_id, iterations) ==
    [history EXCEPT ![session_id] =
        @ \o [i \in 1 .. Len(iterations) |-> iterations[Len(iterations) + 1 - i]]]

\* self.improvement_history[session_id].extend(iterations)
ExtendHistory(history, session_id, iterations) ==
    [history EXCEPT ![session_id] = @ \o iterations]

\* the loop of perform_improvement_cycle is over
CycleReturns(r, input, outcome) ==
    /\ rq' = [r EXCEPT !.cycle = "returned"]
    /\ improvement_history' = ExtendHistory(improvement_history, r.sid, r.iterations)
    /\ RequestSucceeds(r.current, input, outcome)

CycleRaises(r) ==
    /\ rq' = [r EXCEPT !.cycle = "raised"]
    /\ RequestFails("cycle")
    /\ UNCHANGED <<improvement_history, storeVars>>

\* generate_code up to the facade's initial model call; the model follows
\* one request unless a second one is let in (BeginGenerate)
BeginGenerate(sid, imp) ==
    /\ pc = "idle"
    /\ requests' = requests + 1
    /\ rq' = [NoRequest EXCEPT !.sid = sid, !.imp = imp,
                               !.hist0 = improvement_history[sid],
                               !.turns0 = turnSeq[sid]]
    /\ pc' = "generate"
    /\ GetSession(sid)
    /\ UNCHANGED <<out, improvement_history, max_iterations, min_acceptable_score, concVars>>

RouteGenerate(sid, imp) == requests = 0 /\ BeginGenerate(sid, imp)

\* the initial model call is over
GenerateReply(ok, input, outcome) ==
    /\ pc = "generate"
    /\ LET r0 == [rq EXCEPT !.gen = IF ok THEN "ok" ELSE "failed", !.initial = 1, !.current = 1, !.texts = 1]
           r1 == [r0 EXCEPT !.cycle = "running", !.n = max_iterations]
       IN  CASE InitialGeneration(ok) = "raise" ->
                   /\ input = CHOOSE i \in TurnInputs : TRUE
                   /\ outcome = "ok"
                   /\ rq' = [rq EXCEPT !.gen = "failed"]
                   /\ RequestFails("generate")
                   /\ UNCHANGED <<improvement_history, storeVars>>
             [] InitialGeneration(ok) = "continue" /\ ~rq.imp ->
                   /\ rq' = r0
                   /\ RequestSucceeds(r0.current, input, outcome)
                   /\ UNCHANGED improvement_history
             [] InitialGeneration(ok) = "continue" /\ rq.imp ->
                   /\ input = CHOOSE i \in TurnInputs : TRUE
                   /\ outcome = "ok"
                   /\ AwaitReflect(r1)
                   /\ UNCHANGED <<out, improvement_history>>
    /\ UNCHANGED <<max_iterations, min_acceptable_score, requests, concVars>>

\* the model call of perform_self_reflection is over
ReflectReply(reply, input, outcome) ==
    /\ pc = "reflect"
    /\ rq.reflects > MaxVariedReflects => reply \in BasicReplies
    /\ LET result == perform_self_reflection(reply)
           r1 == [rq EXCEPT !.reflection = result,
                            !.lastReflect = reply.kind,
                            !.first = IF @.seen THEN @
                                      ELSE [seen |-> TRUE, score |-> result.score,
                                            threshold |-> min_acceptable_score]]
           r2 == [r1 EXCEPT !.revises = @ + 1]
           context_info ==
               get_context_for_llm(get_session(sessions, disk, rq.sid, now).session, TRUE)
           raises == \/ PromptRaises(result)
                     \/ GuidanceUnbound(context_info, improvement_history[rq.sid])
       IN  CASE Accepted(result.score, min_acceptable_score) ->
                   CycleReturns(r1, input, outcome)
             [] ~Accepted(result.score, min_acceptable_score) /\ raises ->
                   /\ input = CHOOSE i \in TurnInputs : TRUE
                   /\ outcome = "ok"
                   /\ rq' = [r2 EXCEPT !.cycle = "raised"]
                   /\ RequestFails("cycle")
                   /\ GetSession(rq.sid)
                   /\ UNCHANGED improvement_history
             [] OTHER ->
                   /\ input = CHOOSE i \in TurnInputs : TRUE
                   /\ outcome = "ok"
                   /\ pc' = "revise"
                   /\ rq' = [r2 EXCEPT !.calls = @ + 1]
                   /\ GetSession(rq.sid)
                   /\ UNCHANGED <<out, improvement_history>>
    /\ UNCHANGED <<max_iterations, min_acceptable_score, requests, concVars>>

\* the model call of _generate_improved_response is over
ReviseReply(ok, input, outcome) ==
    /\ pc = "revise"
    /\ LET improved == ImprovedResponse(ok, rq.current, rq.texts + 1)
           record == ImprovementIteration(rq.iteration, rq.current, rq.reflection, improved)
           r1 == [rq EXCEPT !.texts = IF ok THEN @ + 1 ELSE @,
                            !.preFail = IF ok THEN @ ELSE @ \cup {rq.current},
                            !.lastReflect = "none"]
           r2 == [r1 EXCEPT !.iterations = Append(@, record),
                            !.current = improved]
       IN  CASE RecordRaises(rq.reflection) ->
                   /\ input = CHOOSE i \in TurnInputs : TRUE
                   /\ outcome = "ok"
                   /\ CycleRaises(r1)
             [] ~RecordRaises(rq.reflection) /\ LoopContinues(rq.iteration, rq.n) ->
                   /\ input = CHOOSE i \in TurnInputs : TRUE
                   /\ outcome = "ok"
                   /\ AwaitReflect([r2 EXCEPT !.iteration = @ + 1])
                   /\ UNCHANGED <<out, improvement_history>>
             [] OTHER ->
                   CycleReturns(r2, input, outcome)
    /\ UNCHANGED <<max_iterations, min_acceptable_score, requests, concVars>>

SetQualityThreshold(threshold) ==
    /\ min_acceptable_score' =
           IF threshold < 0 THEN 0
           ELSE IF threshold > MaxThreshold THEN MaxThreshold ELSE threshold
    /\ UNCHANGED <<pc, rq, out, improvement_history, max_iterations, requests, concVars, storeVars>>

\* a setter that stores its argument as it is
SetMaxIterations_NoClamp(max_iter) ==
    /\ max_iterations' = max_iter
    /\ UNCHANGED <<pc, rq, out, improvement_history, min_acceptable_score, requests, concVars, storeVars>>

SetMaxIterations(max_iter) ==
    /\ max_iterations' =
           IF max_iter < MinIterations THEN MinIterations
           ELSE IF max_iter > MaxIterations THEN MaxIterations ELSE max_iter
    /\ UNCHANGED <<pc, rq, out, improvement_history, min_acceptable_score, requests, concVars, storeVars>>


Next ==
    \/ \E u \in Users, o \in SaveOutcomes :
            nextId + 1 \in FirstSession /\ CreateSession(u, o) /\ UNCHANGED genVars
    \/ \E s \in FirstSession : GetSession(s) /\ UNCHANGED genVars
    \/ \E s \in FirstSession, i \in TurnInputs, o \in SaveOutcomes :
            AddConversationTurn(s, i, o) /\ UNCHANGED genVars
    \/ \E s \in FirstSession : DeleteSession(s) /\ UNCHANGED genVars
    \/ Tick /\ UNCHANGED genVars
    \/ Restart /\ UNCHANGED genVars

Init == InitStore /\ InitGen

Spec == Init /\ [][Next]_vars

NextGen ==
    \/ \E o \in SaveOutcomes :
            nextId + 1 \in FirstSession /\ CreateSession(NoneStr, o) /\ UNCHANGED genVars
    \/ \E s \in FirstSession, imp \in BOOLEAN : RouteGenerate(s, imp)
    \/ \E ok \in BOOLEAN, i \in TurnInputs, o \in SaveOutcomes : GenerateReply(ok, i, o)
    \/ \E reply \in ReflectReplies, i \in TurnInputs, o \in SaveOutcomes : ReflectReply(reply, i, o)
    \/ \E ok \in BOOLEAN, i \in TurnInputs, o \in SaveOutcomes : ReviseReply(ok, i, o)
    \/ \E t \in ThresholdArgs : SetQualityThreshold(t)
    \/ \E m \in IterationArgs : SetMaxIterations(m)

SpecGen == Init /\ [][NextGen]_vars

\* two sessions, listed and cleaned up
NextSessions ==
    \/ \E u \in Users, o \in SaveOutcomes : CreateSession(u, o) /\ UNCHANGED genVars
    \/ \E s \in SessionIds : GetSession(s) /\ UNCHANGED genVars
    \/ \E s \in SessionIds :
            /\ turnSeq[s] < MaxListedTurns
            /\ AddConversationTurn(s, PlainInput, "ok")
            /\ UNCHANGED genVars
    \/ \E s \in SessionIds : DeleteSession(s) /\ UNCHANGED genVars
    \/ \E u \in Users : GetAllSessions(u) /\ UNCHANGED genVars
    \/ CleanupExpiredSessions /\ UNCHANGED genVars
    \/ Tick /\ UNCHANGED genVars
    \/ Restart /\ UNCHANGED genVars

SpecSessions == Init /\ [][NextSessions]_vars

\* one session, its turns with and without code and filenames
NextFiles ==
    \/ nextId + 1 \in FirstSession /\ CreateSession(NoneStr, "ok") /\ UNCHANGED genVars
    \/ \E s \in FirstSession : GetSession(s) /\ UNCHANGED genVars
    \/ \E s \in FirstSession, i \in FileInputs, o \in SaveOutcomes :
            /\ turnSeq[s] < MaxFileTurns
            /\ AddConversationTurn(s, i, o)
            /\ UNCHANGED genVars
    \/ \E s \in FirstSession, t \in Summaries, o \in SaveOutcomes :
            UpdateSessionSummary(s, t, o) /\ UNCHANGED genVars
    \/ Restart /\ UNCHANGED genVars

SpecFiles == Init /\ [][NextFiles]_vars

\* one session and the context text built from it
NextContext ==
    \/ nextId + 1 \in FirstSession /\ CreateSession(NoneStr, "ok") /\ UNCHANGED genVars
    \/ \E s \in FirstSession, i \in TurnInputs :
            AddConversationTurn(s, i, "ok") /\ UNCHANGED genVars
    \/ \E s \in FirstSession, t \in Summaries :
            UpdateSessionSummary(s, t, "ok") /\ UNCHANGED genVars
    \/ \E s \in FirstSession, c \in BOOLEAN : GetContextForLLM(s, c) /\ UNCHANGED genVars
    \/ Tick /\ UNCHANGED genVars
    \/ Restart /\ UNCHANGED genVars

SpecContext == Init /\ [][NextContext]_vars

-----------------------------------------------------------------------------
(* The response parser: CodeGenerationFacade._parse_response.  A reply is a *)
(* sequence of tokens: the fence, a newline, a word made of the characters  *)
(* a language tag may have, and a statement that has other characters too.  *)
(* Neither word nor statement overlaps a shifted copy of itself, so the     *)
(* regular expressions match at token boundaries only.                      *)

Fence == "fence"      \* three backquotes
NL == "\n"
Word == "main"
Stmt == "x = f(1);"
Tokens == {Fence, NL, Word, Stmt}
Placeholder == <<"placeholder">>
Replies == UNION {[1 .. n -> Tokens] : n \in 0 .. MaxReplyLen}

\* len() of a token
CharLen(tok) ==
    CASE tok = Fence -> 3
      [] tok = NL -> 1
      [] tok = Word -> 4
      [] tok = Stmt -> 9
      [] OTHER -> 16

RECURSIVE TextLen(_)
TextLen(text) == IF text = << >> THEN 0 ELSE CharLen(Head(text)) + TextLen(Tail(text))

\* the first fence after position i, or 0
NextFence(text, i) ==
    IF \E k \in (i + 1) .. Len(text) : text[k] = Fence
    THEN CHOOSE k \in (i + 1) .. Len(text) :
            text[k] = Fence /\ \A j \in (i + 1) .. (k - 1) : text[j] # Fence
    ELSE 0

\* [a-zA-Z0-9+\-#]* at the head of a text: the words it takes
LeadingWords(text) ==
    CHOOSE t \in 0 .. Len(text) :
        /\ \A j \in 1 .. t : text[j] = Word
        /\ t = Len(text) \/ text[t + 1] # Word

\* (?:[a-zA-Z0-9+\-#]*\n)?(.*?) on the text between two fences: the group
LoseTagLine(between) ==
    LET t == LeadingWords(between)
    IN  IF t < Len(between) /\ between[t + 1] = NL
        THEN SubSeq(between, t + 2, Len(between))
        ELSE between

\* re.findall that takes a fence without a closing fence for a block
FindAll_Unclosed(text, p) ==
    LET i == NextFence(text, p - 1)
    IN  IF i = 0 THEN << >>
        ELSE <<LoseTagLine(SubSeq(text, i + 1, Len(text)))>>

\* re.findall(code_pattern, response, re.DOTALL), scanning from position p
RECURSIVE FindAll(_, _)
FindAll(text, p) ==
    LET i == NextFence(text, p - 1)
        k == NextFence(text, i)
    IN  IF i = 0 \/ k = 0 THEN << >>
        ELSE <<LoseTagLine(SubSeq(text, i + 1, k - 1))>> \o FindAll(text, k + 1)

\* [a-zA-Z0-9+\-#]*\n? match \n? on the text between two fences
Decomposes(between, match) ==
    \E t \in 0 .. LeadingWords(between), a \in {0, 1}, b \in {0, 1} :
        /\ Len(between) = t + a + Len(match) + b
        /\ a = 1 => between[t + 1] = NL
        /\ SubSeq(between, t + a + 1, t + a + Len(match)) = match
        /\ b = 1 => between[Len(between)] = NL

\* re.sub(fence tag match fence, empty, explanation), scanning from position p
RECURSIVE RemoveBlock(_, _, _)
RemoveBlock(match, text, p) ==
    IF p > Len(text) THEN << >>
    ELSE LET k == NextFence(text, p)
         IN  IF text[p] = Fence /\ k # 0 /\ Decomposes(SubSeq(text, p + 1, k - 1), match)
             THEN RemoveBlock(match, text, k + 1)
             ELSE <<text[p]>> \o RemoveBlock(match, text, p + 1)

\* for match in code_matches: explanation = re.sub(...)
RECURSIVE RemoveBlocks(_, _)
RemoveBlocks(code_matches, explanation) ==
    IF code_matches = << >> THEN explanation
    ELSE RemoveBlocks(Tail(code_matches), RemoveBlock(Head(code_matches), explanation, 1))

\* str.strip()
Strip(text) ==
    IF \A i \in DOMAIN text : text[i] = NL THEN << >>
    ELSE LET a == CHOOSE i \in DOMAIN text :
                     text[i] # NL /\ \A j \in 1 .. (i - 1) : text[j] = NL
             b == CHOOSE i \in DOMAIN text :
                     text[i] # NL /\ \A j \in (i + 1) .. Len(text) : text[j] = NL
         IN  SubSeq(text, a, b)

\* re.sub of a newline, blanks, a newline, blanks, a newline by two newlines
RECURSIVE Collapse(_)
Collapse(text) ==
    IF text = << >> THEN << >>
    ELSE IF Head(text) # NL THEN <<Head(text)>> \o Collapse(Tail(text))
    ELSE LET n == CHOOSE m \in 1 .. Len(text) :
                     /\ \A j \in 1 .. m : text[j] = NL
                     /\ m = Len(text) \/ text[m + 1] # NL
         IN  (IF n >= 3 THEN <<NL, NL>> ELSE SubSeq(text, 1, n))
             \o Collapse(SubSeq(text, n + 1, Len(text)))

_clean_explanation(explanation) ==
    LET e == Strip(Collapse(explanation))
    IN  IF TextLen(e) < MinExplanationLen THEN Placeholder ELSE e

\* max(code_matches, key=len): the first of the longest
Longest(code_matches) ==
    code_matches[CHOOSE i \in DOMAIN code_matches :
        /\ \A j \in DOMAIN code_matches : TextLen(code_matches[j]) <= TextLen(code_matches[i])
        /\ \A j \in 1 .. (i - 1) : TextLen(code_matches[j]) < TextLen(code_matches[i])]

_parse_response(response) ==
    LET code_matches == FindAll(response, 1)
    IN  IF code_matches # << >>
        THEN [code |-> Strip(Longest(code_matches)),
              explanation |-> _clean_explanation(RemoveBlocks(code_matches, response))]
        ELSE [code |-> << >>, explanation |-> _clean_explanation(response)]

\* a reply of the model arrives
InitParse ==
    /\ InitGen
    /\ sessions = [s \in SessionIds |-> NoSession]
    /\ disk = [s \in SessionIds |-> NoSession]
    /\ now = 0
    /\ nextId = 0
    /\ turnSeq = [s \in SessionIds |-> 0]
    /\ \E reply \in Replies : ret = Ret("reply", 0, reply, "none")
    /\ prev = NoSession
    /\ lost = [s \in SessionIds |-> FALSE]
    /\ faults = 0

ParseResponse ==
    /\ ret.op = "reply"
    /\ ret' = Ret("parse", 0, [response |-> ret.value,
                               result |-> _parse_response(ret.value)], "none")
    /\ UNCHANGED <<sessions, disk, now, nextId, turnSeq, prev, lost, faults>>

NextParse == ParseResponse /\ UNCHANGED genVars

SpecParse == InitParse /\ [][NextParse]_vars

-----------------------------------------------------------------------------
(* Two generate requests in one process.  The event loop runs one handler  *)
(* at a time and changes handlers only where the running one awaits a model *)
(* call, which is where every action of a request ends.                     *)

\* the handler that runs is suspended at its await and the other one resumes
Switch ==
    /\ pc' = parked.pc
    /\ rq' = parked.rq
    /\ out' = parked.out
    /\ parked' = [pc |-> pc, rq |-> rq, out |-> out]
    /\ UNCHANGED <<improvement_history, max_iterations, min_acceptable_score, requests,
                   peer, writing, storeVars>>

\* the replies of the Reflect steps of two overlapping requests
OverlapReplies ==
    {Reply("json", TRUE, 30, "list_of_str"),
     Reply("json", TRUE, 75, "list_of_str")}

\* a session made before the requests, two requests that may overlap, and
\* the session deleted or expiring meanwhile
NextOverlap ==
    \/ requests = 0 /\ nextId + 1 \in FirstSession
          /\ CreateSession(NoneStr, "ok") /\ UNCHANGED genVars
    \/ \E s \in FirstSession, imp \in BOOLEAN :
          /\ rq = NoRequest
          /\ BeginGenerate(s, imp)
    \/ \E ok \in BOOLEAN, o \in SaveOutcomes : GenerateReply(ok, PlainInput, o)
    \/ \E reply \in OverlapReplies, o \in SaveOutcomes : ReflectReply(reply, PlainInput, o)
    \/ \E o \in SaveOutcomes : ReviseReply(TRUE, PlainInput, o)
    \/ Switch
    \/ \E s \in FirstSession : DeleteSession(s) /\ UNCHANGED genVars
    \/ Tick /\ UNCHANGED genVars

SpecOverlap == Init /\ [][NextOverlap]_vars

-----------------------------------------------------------------------------
(* Two processes, each with a ContextManager of its own, on the same       *)
(* records.  They run in parallel, so _save_session is two steps here: the  *)
(* open, which empties the file, and the dump, which writes from the start  *)
(* of the file and leaves what lies behind the end of its text.             *)

\* the other process runs
SwitchProcess ==
    /\ sessions' = peer.sessions
    /\ writing' = peer.writing
    /\ peer' = [proc |-> 3 - peer.proc, sessions |-> sessions, writing |-> writing]
    /\ UNCHANGED <<disk, now, nextId, turnSeq, ret, prev, lost, faults>>

\* what a dump can leave in a file: the snapshot, or, when the other process
\* has opened or written the file since this one opened it (writing.torn), a
\* text that is no record
DumpResults(w) ==
    IF w.torn THEN {AsDict(w.session), Corrupt} ELSE {AsDict(w.session)}

\* add_conversation_turn up to the open() of _save_session
OpenRecord(sid, input) ==
    /\ writing = NotWriting
    /\ turnSeq[sid] < MaxRaceTurns
    /\ LET g == get_session(sessions, disk, sid, now)
       IN  IF g.session = NoSession
           THEN /\ sessions' = g.sessions
                /\ disk' = g.disk
                /\ ret' = Ret("add", sid, FALSE, "none")
                /\ prev' = sessions[sid]
                /\ UNCHANGED <<turnSeq, writing, peer>>
           ELSE LET turn == ConversationTurn(turnSeq[sid] + 1, input)
                    s2 == AppendTurn(g.session, turn, now)
                    overlap == peer.writing.session # NoSession
                               /\ peer.writing.session.session_id = sid
                IN  /\ sessions' = [g.sessions EXCEPT ![sid] = s2]
                    /\ disk' = [g.disk EXCEPT ![sid] = Corrupt]
                    /\ writing' = [session |-> s2, torn |-> FALSE]
                    /\ peer' = IF overlap THEN [peer EXCEPT !.writing.torn = TRUE] ELSE peer
                    /\ ret' = Ret("open", sid, peer.proc, "none")
                    /\ prev' = g.session
                    /\ turnSeq' = [turnSeq EXCEPT ![sid] = @ + 1]
    /\ UNCHANGED <<now, nextId, lost, faults>>

\* json.dump, the close of the file and the return of add_conversation_turn
CloseRecord ==
    /\ writing # NotWriting
    /\ \E written \in DumpResults(writing) :
          disk' = [disk EXCEPT ![writing.session.session_id] = written]
    /\ writing' = NotWriting
    /\ peer' = IF /\ peer.writing.session # NoSession
                  /\ peer.writing.session.session_id = writing.session.session_id
               THEN [peer EXCEPT !.writing.torn = TRUE]
               ELSE peer
    /\ ret' = Ret("add", writing.session.session_id, TRUE, "ok")
    /\ UNCHANGED <<sessions, now, nextId, turnSeq, prev, lost, faults>>

ProcUnchanged ==
    UNCHANGED <<pc, rq, out, improvement_history, max_iterations, min_acceptable_score,
                requests, parked>>

NextProcs ==
    \/ /\ writing = NotWriting /\ nextId + 1 \in FirstSession
       /\ CreateSession(NoneStr, "ok") /\ UNCHANGED genVars
    \/ \E s \in FirstSession :
          writing = NotWriting /\ GetSession(s) /\ UNCHANGED genVars
    \/ \E s \in FirstSession : OpenRecord(s, PlainInput) /\ ProcUnchanged
    \/ CloseRecord /\ ProcUnchanged
    \/ SwitchProcess /\ ProcUnchanged
    \/ Tick /\ UNCHANGED genVars

SpecProcs == Init /\ [][NextProcs]_vars

-----------------------------------------------------------------------------
\* the configuration surface
NextConfig ==
    \/ \E t \in WideThresholdArgs : SetQualityThreshold(t)
    \/ \E m \in WideIterationArgs : SetMaxIterations(m)

SpecConfig == Init /\ [][NextConfig]_vars

-----------------------------------------------------------------------------
(* Claims *)

\* C1: a cached session never holds more than max_context_turns turns; once
\* more than max_context_turns appends of a session have succeeded (each one
\* written to its durable record), it holds exactly max_context_turns turns
\* and the first of them is the first turn ever appended to the session.
C1_TurnsCapped ==
    \A s \in SessionIds :
        sessions[s] # NoSession =>
            /\ Len(sessions[s].turns) <= max_context_turns
            /\ (~lost[s] /\ turnSeq[s] > max_context_turns) =>
                   /\ Len(sessions[s].turns) = max_context_turns
                   /\ sessions[s].turns[1].turn_id = 1

C1_Witness ==
    \E s \in SessionIds :
        /\ sessions[s] # NoSession
        /\ ~lost[s]
        /\ turnSeq[s] > max_context_turns + 1
        /\ Len(sessions[s].turns) = max_context_turns

\* C2: one call of perform_improvement_cycle calls _generate_improved_response
\* at most max_iterations times (the value when the loop started), whatever
\* the reflection scores and the failures of the model.
C2_RevisionsBounded ==
    rq.cycle # "none" => rq.revises <= rq.n

C2_Witness ==
    /\ rq.cycle = "returned"
    /\ rq.n = DefaultMaxIterations
    /\ rq.revises = rq.n

\* C3: when the first Reflect of a call scores at least min_acceptable_score
\* (equality included), no Revise step runs, no ImprovementIteration is
\* recorded or stored, and the call returns the initial response.
C3_FirstAcceptReturnsInitial ==
    (rq.first.seen /\ rq.first.score >= rq.first.threshold) =>
        /\ rq.revises = 0
        /\ rq.iterations = << >>
        /\ rq.cycle = "returned"
        /\ out = Out("ok", "done", rq.initial)
        /\ improvement_history[rq.sid] = rq.hist0

C3_Witness ==
    /\ rq.first.seen
    /\ rq.first.score = rq.first.threshold
    /\ rq.first.threshold = DefaultMinAcceptableScore
    /\ out = Out("ok", "done", rq.initial)

\* C4: when the model call of a Revise step has failed, the text the call of
\* perform_improvement_cycle returns is the response that was current right
\* before that Revise step.
C4_ReturnsPreRevisionResponse ==
    (pc = "idle" /\ rq.cycle = "returned") =>
        \A text \in rq.preFail : out.text = text

\* C5: when the model call of a Reflect step fails, or its reply cannot be
\* parsed, perform_self_reflection raises nothing and returns the default
\* result, score 5.0 with a single issue, and the loop decides on it: it
\* returns the current response or goes on to _generate_improved_response.
C5_ReflectFailureAbsorbed ==
    rq.lastReflect \in {"call_failed", "parse_failed"} =>
        /\ rq.reflection.score = DefaultScore
        /\ Len(rq.reflection.issues) = 1
        /\ rq.reflection.shape = "list_of_str"
        /\ \/ rq.cycle = "returned" /\ rq.revises = rq.reflects - 1
           \/ rq.revises = rq.reflects /\ (pc = "revise" \/ rq.cycle = "raised")

C5_Witness ==
    /\ rq.lastReflect = "call_failed"
    /\ rq.reflects > 1
    /\ pc = "revise"

\* C6: every call of perform_improvement_cycle that is over has returned a
\* response text, after at most 2 * max_iterations model calls.
C6_CycleAlwaysReturns ==
    (pc = "idle" /\ rq.cycle # "none") =>
        /\ rq.cycle = "returned"
        /\ out.status = "ok"
        /\ rq.calls <= 2 * rq.n

\* C7: when the initial generation fails, generate_code_with_context raises to
\* its caller: no Reflect and no Revise step has run, no ImprovementIteration
\* is recorded or stored, and no turn is added to the session.
C7_GenerationFailurePropagates ==
    rq.gen = "failed" =>
        /\ pc = "idle"
        /\ out = Out("error", "generate", 0)
        /\ rq.cycle = "none"
        /\ rq.reflects = 0 /\ rq.revises = 0 /\ rq.calls = 0
        /\ rq.iterations = << >>
        /\ improvement_history[rq.sid] = rq.hist0
        /\ turnSeq[rq.sid] = rq.turns0

C7_Witness ==
    /\ rq.gen = "failed"
    /\ rq.imp
    /\ sessions[rq.sid] # NoSession

\* C8: when the durable write of add_conversation_turn fails, the call reports
\* the failure and the cached session is as it was before the attempt.
C8_FailedWriteReported ==
    (ret.op = "add" /\ ret.save \in {"open_failed", "dump_failed"}) =>
        /\ ret.value = FALSE
        /\ sessions[ret.sid] = prev

\* C9: when create_session returns a session id, the durable record of that
\* session is written.
C9_CreatedSessionDurable ==
    ret.op = "create" => disk[ret.sid] = AsDict(sessions[ret.sid])

\* C10: get_session never returns a session whose last_activity lies more than
\* session_timeout before the time of the call, from the cache or from the
\* durable record.
C10_NeverReturnsExpired ==
    (ret.op = "get" /\ ret.value # NoSession) => ~Expired(ret.value, ret.at)

\* C11: the list get_all_sessions returns holds exactly the cached sessions
\* that are not expired at the time of the call (of the given owner, when one
\* is given), most recent last_activity first.
C11_ListsNonExpired ==
    ret.op = "list" =>
        LET l == ret.value.sessions
            u == ret.value.user_id
        IN  /\ \A i, j \in DOMAIN l : i # j => l[i].session_id # l[j].session_id
            /\ {l[i].session_id : i \in DOMAIN l} =
                   {s \in SessionIds : /\ sessions[s] # NoSession
                                       /\ ~(ret.at - sessions[s].last_activity > session_timeout)
                                       /\ u # NoneStr => sessions[s].user_id = u}
            /\ \A i, j \in DOMAIN l : i < j => l[i].last_activity >= l[j].last_activity

\* C12: delete_session leaves the session out of the cache and out of the
\* durable records, and returns true exactly when the session was in the
\* cache or in the durable records before the call.
C12_DeleteReportsDeletion ==
    [][\A s \in SessionIds :
          DeleteSession(s) =>
              /\ sessions'[s] = NoSession
              /\ disk'[s] = NoSession
              /\ ret'.value = (sessions[s] # NoSession \/ disk[s] # NoSession)]_vars

\* C13: cleanup_expired_sessions removes, from the cache and from the durable
\* records, exactly the cached sessions idle for longer than the timeout,
\* returns how many they are, and leaves every other session as it was.
C13_CleanupExact ==
    [][CleanupExpiredSessions =>
          /\ \A s \in SessionIds :
                IF sessions[s] # NoSession /\ now - sessions[s].last_activity > session_timeout
                THEN sessions'[s] = NoSession /\ disk'[s] = NoSession
                ELSE sessions'[s] = sessions[s] /\ disk'[s] = disk[s]
          /\ ret'.value = Cardinality({s \in SessionIds :
                                          /\ sessions[s] # NoSession
                                          /\ now - sessions[s].last_activity > session_timeout})]_vars

C13_Witness ==
    /\ ret.op = "cleanup"
    /\ ret.value = 1
    /\ \E s \in SessionIds : sessions[s] = NoSession /\ disk[s] = NoSession /\ s <= nextId
    /\ \E s \in SessionIds : sessions[s] # NoSession /\ disk[s] # NoSession

\* C14: the dependencies of a session's code_context hold no entry twice.
C14_DependenciesDuplicateFree ==
    \A s \in SessionIds :
        (sessions[s] # NoSession /\ sessions[s].code_context # NoContext) =>
            Cardinality(Range(sessions[s].code_context.dependencies))
                = Len(sessions[s].code_context.dependencies)

\* C15: the dependencies of a session's code_context include the dependencies
\* stored in the metadata of every turn of the session.
C15_DependenciesCoverMetadata ==
    \A s \in SessionIds :
        (sessions[s] # NoSession /\ sessions[s].code_context # NoContext) =>
            \A i \in 1 .. Len(sessions[s].turns) :
                Range(sessions[s].turns[i].dependencies)
                    \subseteq Range(sessions[s].code_context.dependencies)

FirstFileTurns(turns) ==
    {i \in 1 .. Len(turns) :
        /\ turns[i].generated_code # NoCode
        /\ turns[i].filename # NoneStr
        /\ \A j \in 1 .. (i - 1) :
              turns[j].generated_code # NoCode => turns[j].filename # turns[i].filename}

\* C17: while no turn of a session has been pruned, current_files is the
\* sequence of the filenames of its turns that carry code and a filename,
\* each once, in the order of their first appearance (empty while the session
\* has no code_context).
C17_CurrentFilesInOrder ==
    \A s \in SessionIds :
        (sessions[s] # NoSession /\ turnSeq[s] <= max_context_turns) =>
            LET turns == sessions[s].turns
                first == FirstFileTurns(turns)
                order == CHOOSE f \in [1 .. Cardinality(first) -> first] :
                            \A i, j \in DOMAIN f : i < j => f[i] < f[j]
                files == IF sessions[s].code_context = NoContext THEN << >>
                         ELSE sessions[s].code_context.current_files
            IN  files = [i \in DOMAIN order |-> turns[order[i]].filename]

C17_Witness ==
    \E s \in SessionIds :
        /\ sessions[s] # NoSession
        /\ Len(sessions[s].turns) = 3
        /\ sessions[s].turns[1].filename = "b.py"
        /\ sessions[s].turns[2].filename = "a.py"
        /\ sessions[s].turns[3].filename = "c.py"
        /\ sessions[s].code_context # NoContext
        /\ sessions[s].code_context.current_files = <<"b.py", "a.py">>

\* C18: set_max_iterations stores its argument clamped to [1, 10] and
\* set_quality_threshold its argument clamped to [0, 10]; after any of them
\* both settings are within their bounds.
C18_SettingsClamped ==
    [][/\ \A m \in WideIterationArgs :
            SetMaxIterations(m) =>
                max_iterations' = IF m < 1 THEN 1 ELSE IF m > 10 THEN 10 ELSE m
       /\ \A t \in WideThresholdArgs :
            SetQualityThreshold(t) =>
                min_acceptable_score' = IF t < 0 THEN 0 ELSE IF t > 100 THEN 100 ELSE t
       /\ max_iterations' \in 1 .. 10
       /\ min_acceptable_score' \in 0 .. 100]_vars

C18_Witness ==
    /\ max_iterations = 10
    /\ min_acceptable_score = 0

\* C19: the score of the ReflectionResult a Reflect step returns is within
\* [0, 10].
C19_ScoreInRange ==
    rq.reflects > 0 => (rq.reflection.score >= 0 /\ rq.reflection.score <= 100)

\* C20: when perform_improvement_cycle returns, a Reflect step has run after
\* the last Revise step: Reflect steps outnumber Revise steps.
C20_EveryRevisionReflected ==
    (pc = "idle" /\ rq.cycle = "returned") => rq.reflects > rq.revises

\* C21: the model calls of one perform_improvement_cycle alternate, starting
\* with a Reflect: while a Reflect is awaited it is the only call outstanding,
\* every earlier Reflect was followed by one Revise, and the text under
\* evaluation is the one the last Revise returned (the initial response when
\* there was none); while a Revise is awaited every Reflect so far but the last
\* was followed by one Revise.
C21_StrictAlternation ==
    /\ pc = "reflect" =>
          /\ rq.cycle = "running"
          /\ rq.reflects = rq.revises + 1
          /\ rq.calls = 2 * rq.revises + 1
          /\ Len(rq.iterations) = rq.revises
          /\ rq.reflected = IF rq.iterations = << >> THEN rq.initial
                            ELSE rq.iterations[Len(rq.iterations)].improved_response
    /\ pc = "revise" =>
          /\ rq.cycle = "running"
          /\ rq.revises = rq.reflects
          /\ rq.calls = 2 * rq.reflects

C21_Witness ==
    /\ pc = "reflect"
    /\ rq.reflects = 3
    /\ rq.reflected = 3

\* a store that holds the cache entry or the durable record of session s only
Only(f, s) == [t \in SessionIds |-> IF t = s THEN f[t] ELSE NoSession]

\* C22: a create, get, append or delete of one session id leaves the cache
\* entry and the durable record of every other id as they were, and what it
\* returns and leaves for its own id is what it would return and leave in a
\* store that holds this id alone.  (The operation of a step is the one the
\* step recorded in ret.)
C22_NoInterference ==
    [][\A s \in SessionIds :
        (ret'.sid = s /\ (ret' # ret \/ turnSeq' # turnSeq)) =>
            LET alone == get_session(Only(sessions, s), Only(disk, s), s, now)
                gone == delete_session(Only(sessions, s), Only(disk, s), s)
                turns == sessions'[s].turns
                turn == turns[Len(turns)]
                appended == [alone.session EXCEPT !.turns = PruneTurns(Append(@, turn)),
                                                  !.last_activity = now]
            IN  /\ ret'.op \in {"create", "get", "add", "delete"} =>
                      \A t \in SessionIds \ {s} :
                          sessions'[t] = sessions[t] /\ disk'[t] = disk[t]
                /\ ret'.op = "get" =>
                      /\ ret'.value = alone.session
                      /\ sessions'[s] = alone.sessions[s]
                      /\ disk'[s] = alone.disk[s]
                /\ ret'.op = "delete" =>
                      /\ ret'.value = gone.result
                      /\ sessions'[s] = gone.sessions[s]
                      /\ disk'[s] = gone.disk[s]
                /\ ret'.op = "add" =>
                      /\ ret'.value = (alone.session # NoSession)
                      /\ alone.session # NoSession =>
                            sessions'[s] = _update_code_context(appended, turn, turn.turn_id)
                      /\ alone.session = NoSession =>
                            sessions'[s] = alone.sessions[s] /\ disk'[s] = alone.disk[s]]_vars

C22_Witness ==
    /\ ret.op = "delete"
    /\ ret.sid = 1
    /\ ret.value = TRUE
    /\ sessions[1] = NoSession
    /\ sessions[2] # NoSession
    /\ Len(sessions[2].turns) = 1
    /\ disk[2] = AsDict(sessions[2])

\* C23: after a create_session, an add_conversation_turn that returned true
\* or an update_session_summary that found the session, the durable record of
\* the session is a snapshot of the cached session: _load_session rebuilds
\* from it a session equal to the cached one.
C23_RecordIsSnapshot ==
    ( /\ ret.op \in {"create", "add", "summary"}
      /\ sessions[ret.sid] # NoSession
      /\ ret.op = "add" => ret.value = TRUE ) =>
        _load_session([s \in SessionIds |-> NoSession], disk, ret.sid).session
            = sessions[ret.sid]

\* C24: a get_session of an id that is not cached and whose durable record is
\* missing or unreadable returns not-found and leaves the cache and the
\* durable records, of this id and of every other, as they were.
C24_UnreadableIsNotFound ==
    [][\A s \in SessionIds :
        ( /\ ret'.op = "get" /\ ret'.sid = s /\ ret' # ret
          /\ sessions[s] = NoSession
          /\ disk[s] \in {NoSession, Corrupt} ) =>
            /\ ret'.value = NoSession
            /\ sessions' = sessions
            /\ disk' = disk]_vars

C24_Witness ==
    /\ ret.op = "get"
    /\ ret.value = NoSession
    /\ disk[ret.sid] = Corrupt
    /\ sessions[ret.sid] = NoSession
    /\ \E t \in SessionIds : sessions[t] # NoSession

\* C25: when a generate request has reported success, the session it names
\* holds one turn more than when the request arrived, and that turn is its
\* last.
C25_SuccessAppendsTurn ==
    (pc = "idle" /\ out.status = "ok") =>
        /\ turnSeq[rq.sid] = rq.turns0 + 1
        /\ sessions[rq.sid] # NoSession
        /\ sessions[rq.sid].turns # << >>
        /\ sessions[rq.sid].turns[Len(sessions[rq.sid].turns)].turn_id = turnSeq[rq.sid]

\* C26: create_session caches a session with created_at = last_activity = the
\* time of the call, no turns and no code_context; an add_conversation_turn
\* that returns true leaves last_activity at the time of the call, not earlier
\* than it was; and a session keeps its session_id and created_at for as long
\* as it is cached, and through every append.
C26_Timestamps ==
    [][\A s \in SessionIds :
        /\ nextId' = s /\ nextId # s =>
              /\ sessions'[s].session_id = s
              /\ sessions'[s].created_at = now
              /\ sessions'[s].last_activity = sessions'[s].created_at
              /\ sessions'[s].turns = << >>
              /\ sessions'[s].code_context = NoContext
        /\ turnSeq'[s] # turnSeq[s] =>
              /\ ret'.value = TRUE
              /\ sessions'[s].last_activity = ret'.at
              /\ sessions'[s].last_activity >= prev'.last_activity
              /\ sessions'[s].session_id = prev'.session_id
              /\ sessions'[s].created_at = prev'.created_at
        /\ (sessions[s] # NoSession /\ sessions'[s] # NoSession) =>
              /\ sessions'[s].session_id = s
              /\ sessions'[s].session_id = sessions[s].session_id
              /\ sessions'[s].created_at = sessions[s].created_at
              /\ sessions'[s].last_activity >= sessions[s].last_activity]_vars

C26_Witness ==
    /\ ret.op = "add"
    /\ ret.value = TRUE
    /\ sessions[ret.sid] # NoSession
    /\ sessions[ret.sid].created_at > 0
    /\ sessions[ret.sid].last_activity > sessions[ret.sid].created_at
    /\ sessions[ret.sid].last_activity > prev.last_activity
    /\ ret.at = sessions[ret.sid].last_activity

\* C27: the text get_context_for_llm returns is non-empty exactly when the
\* session exists and is not expired at the time of the call.
C27_EmptyIffNotFound ==
    ret.op = "context" =>
        ( (ret.value # << >>) <=>
          (sessions[ret.sid] # NoSession /\ ~Expired(sessions[ret.sid], ret.at)) )

\* C28: the turns the text of get_context_for_llm shows are the last
\* min(5, len(turns)) turns of the session, oldest first, and every part of
\* the text that belongs to a turn belongs to one of them.
C28_RecentHistory ==
    (ret.op = "context" /\ ret.value # << >>) =>
        LET turns == sessions[ret.sid].turns
            n == IF Len(turns) < 5 THEN Len(turns) ELSE 5
            IsUser(p) == p.kind = "user"
            listed == SelectSeq(ret.value, IsUser)
        IN  /\ Len(listed) = n
            /\ \A i \in 1 .. n : listed[i].turn = turns[Len(turns) - n + i].turn_id
            /\ \A i \in DOMAIN ret.value :
                  ret.value[i].kind \in {"user", "response", "file"} =>
                      \E j \in 1 .. n : listed[j].turn = ret.value[i].turn

C28_Witness ==
    /\ ret.op = "context"
    /\ ret.value # << >>
    /\ turnSeq[ret.sid] > max_context_turns
    /\ \E i \in DOMAIN ret.value :
          ret.value[i].kind = "user" /\ ret.value[i].turn = turnSeq[ret.sid]
    /\ \A i \in DOMAIN ret.value : ret.value[i].turn # 1

-----------------------------------------------------------------------------
\* the fenced blocks of a reply, as the reply's reader sees them: the fences
\* pair up in order, an odd one opens and the next one closes

FenceRank(text, i) == Cardinality({j \in 1 .. i : text[j] = Fence})

FencePairs(text) ==
    {p \in (DOMAIN text) \X (DOMAIN text) :
        /\ text[p[1]] = Fence /\ text[p[2]] = Fence
        /\ FenceRank(text, p[1]) % 2 = 1
        /\ FenceRank(text, p[2]) = FenceRank(text, p[1]) + 1}

RECURSIVE OutsideBlocks(_, _)
OutsideBlocks(text, i) ==
    IF i > Len(text) THEN << >>
    ELSE (IF \E p \in FencePairs(text) : p[1] <= i /\ i <= p[2] THEN << >> ELSE <<text[i]>>)
         \o OutsideBlocks(text, i + 1)

BlockContents(text) ==
    {LoseTagLine(SubSeq(text, p[1] + 1, p[2] - 1)) : p \in FencePairs(text)}

RECURSIVE WithoutNewlines(_)
WithoutNewlines(text) ==
    IF text = << >> THEN << >>
    ELSE (IF Head(text) = NL THEN << >> ELSE <<Head(text)>>) \o WithoutNewlines(Tail(text))

\* C29: when the reply has fenced blocks, the code returned is the longest
\* block's content (by character count, trimmed) and the explanation is the
\* cleaned reply with every fenced block removed.
C29_LongestBlockRestExplained ==
    (ret.op = "parse" /\ FencePairs(ret.value.response) # {}) =>
        LET response == ret.value.response
            result == ret.value.result
        IN  /\ \E b \in BlockContents(response) :
                /\ result.code = Strip(b)
                /\ \A c \in BlockContents(response) : TextLen(c) <= TextLen(b)
            /\ result.explanation = _clean_explanation(OutsideBlocks(response, 1))

\* the part of C29 about the code alone: the longest block, trimmed
C29_LongestBlock ==
    (ret.op = "parse" /\ FencePairs(ret.value.response) # {}) =>
        \E b \in BlockContents(ret.value.response) :
            /\ ret.value.result.code = Strip(b)
            /\ \A c \in BlockContents(ret.value.response) : TextLen(c) <= TextLen(b)

\* C30: when the reply has no fenced block, the code returned is empty and the
\* explanation is the whole reply, cleaned: trimmed, with no three newlines
\* in a row, its other text kept in order, or the placeholder when what is
\* left is shorter than ten characters.
C30_NoBlockAllExplanation ==
    (ret.op = "parse" /\ FencePairs(ret.value.response) = {}) =>
        LET response == ret.value.response
            e == ret.value.result.explanation
        IN  /\ ret.value.result.code = << >>
            /\ e = Placeholder => TextLen(WithoutNewlines(response)) < MinExplanationLen
            /\ e # Placeholder =>
                /\ WithoutNewlines(e) = WithoutNewlines(response)
                /\ TextLen(e) >= MinExplanationLen
                /\ e[1] # NL /\ e[Len(e)] # NL
                /\ \A i \in 1 .. (Len(e) - 2) : ~(e[i] = NL /\ e[i + 1] = NL /\ e[i + 2] = NL)
                /\ \A i \in 1 .. (Len(e) - 1) :
                       e[i] # NL /\ e[i + 1] # NL =>
                           \E j \in 1 .. (Len(response) - 1) :
                               response[j] = e[i] /\ response[j + 1] = e[i + 1]

C30_Witness ==
    /\ ret.op = "parse"
    /\ ret.value.response = <<NL, Stmt, NL, NL, NL, Fence>>
    /\ ret.value.result = [code |-> << >>, explanation |-> <<Stmt, NL, NL, Fence>>]

\* C31: when an append finds max_context_turns turns in the session, the
\* turns it leaves are the first turn the session had before the append
\* followed by the max_context_turns - 1 most recently appended turns in
\* their order; the turn just appended is the last one and every turn that
\* is dropped lay between the first and those.
C31_PruneKeepsFirstAndRecent ==
    (/\ ret.op = "add" /\ ret.value = TRUE
     /\ sessions[ret.sid] # NoSession
     /\ Len(prev.turns) + 1 > max_context_turns) =>
        LET before == prev.turns
            after == sessions[ret.sid].turns
            appended == Append(before, after[Len(after)])
            kept == max_context_turns - 1
        IN  /\ Len(after) = max_context_turns
            /\ after[1] = before[1]
            /\ after[Len(after)].turn_id = turnSeq[ret.sid]
            /\ \A t \in Range(before) : t.turn_id < turnSeq[ret.sid]
            /\ \A i \in 1 .. kept : after[1 + i] = appended[Len(appended) - kept + i]
            /\ \A j \in 1 .. Len(before) :
                   before[j] \notin Range(after) => 1 < j /\ j <= Len(appended) - kept

C31_Witness ==
    /\ ret.op = "add" /\ ret.value = TRUE
    /\ sessions[ret.sid] # NoSession
    /\ Len(prev.turns) = max_context_turns
    /\ turnSeq[ret.sid] = max_context_turns + 2
    /\ sessions[ret.sid].turns[1].turn_id = 1
    /\ sessions[ret.sid].turns[2].turn_id = 4

\* C32: the records one call of perform_improvement_cycle has made are
\* numbered 1, 2, ... without gaps and form a chain: the first one starts
\* from the initial response, each later one from the text the one before it
\* ended with; the text the call returns (and the history keeps the records
\* of) is the last record's improved_response, or the initial response when
\* there is no record.
C32_RecordsChained ==
    rq.cycle # "none" =>
        LET recs == rq.iterations
            last == IF recs = << >> THEN rq.initial ELSE recs[Len(recs)].improved_response
        IN  /\ \A i \in DOMAIN recs : recs[i].iteration = i
            /\ recs # << >> => recs[1].original_response = rq.initial
            /\ \A i \in 1 .. (Len(recs) - 1) :
                   recs[i + 1].original_response = recs[i].improved_response
            /\ rq.current = last
            /\ (rq.cycle = "returned" /\ pc = "idle") =>
                   /\ out.text = last
                   /\ improvement_history[rq.sid] = rq.hist0 \o recs

C32_Witness ==
    /\ rq.cycle = "returned" /\ pc = "idle" /\ out.status = "ok"
    /\ Len(rq.iterations) = 3
    /\ rq.iterations[2].improved_response = rq.iterations[2].original_response
    /\ rq.iterations[3].improved_response # rq.iterations[3].original_response
    /\ out.text = rq.iterations[3].improved_response

\* C33: the improvement history of a session is append-only: no step makes
\* it shorter or changes a record it holds, the deletion and the expiry of
\* the session included.
C33_HistoryAppendOnly ==
    [][\A s \in SessionIds :
          /\ Len(improvement_history'[s]) >= Len(improvement_history[s])
          /\ SubSeq(improvement_history'[s], 1, Len(improvement_history[s]))
                 = improvement_history[s]]_vars

\* the session went away after a first call had stored its records and its
\* turn, and a second call has stored its own records since
C33_Witness ==
    /\ \E s \in SessionIds :
          /\ sessions[s] = NoSession /\ disk[s] = NoSession /\ nextId >= s
          /\ rq.sid = s /\ parked.rq.sid = s
          /\ Len(improvement_history[s]) = Len(rq.iterations) + Len(parked.rq.iterations)
          /\ turnSeq[s] = 1
    /\ ret.op = "add" /\ ret.value = FALSE
    /\ rq.cycle = "returned" /\ rq.iterations # << >>
    /\ parked.rq.cycle = "returned" /\ parked.rq.iterations # << >>

\* C34: add_conversation_turn on a session id that has neither a cached
\* session nor a record, or whose cached session is past the timeout,
\* returns False, appends no turn, creates no session and changes no other
\* session; afterwards the id has no cached session and no record.
C34_AddOnMissingOrExpired ==
    [][\A s \in SessionIds :
          (/\ ret'.op = "add" /\ ret'.sid = s /\ now' = now
           /\ \/ sessions[s] = NoSession /\ disk[s] = NoSession
              \/ sessions[s] # NoSession /\ Expired(sessions[s], now)) =>
              /\ ret'.value = FALSE
              /\ turnSeq' = turnSeq /\ nextId' = nextId
              /\ sessions'[s] = NoSession /\ disk'[s] = NoSession
              /\ \A t \in SessionIds \ {s} :
                     sessions'[t] = sessions[t] /\ disk'[t] = disk[t]]_vars

C34_Witness ==
    /\ ret.op = "add" /\ ret.value = FALSE
    /\ prev # NoSession /\ Expired(prev, ret.at)
    /\ sessions[ret.sid] = NoSession /\ disk[ret.sid] = NoSession
    /\ \E t \in SessionIds \ {ret.sid} : sessions[t] # NoSession /\ disk[t] # NoSession

\* C35: two processes hold the same session in their caches and both append
\* to it; whenever one of them completes its write, the persisted record is
\* the snapshot of that writer, the last one (which lacks the turn the other
\* writer appended).
C35_LastWriterWins ==
    [][\A s \in SessionIds :
          (/\ writing # NotWriting /\ writing.session.session_id = s
           /\ writing' = NotWriting /\ peer'.proc = peer.proc
           /\ peer.sessions[s] # NoSession) =>
              disk'[s] = AsDict(sessions'[s])]_vars

\* the part of C35 about writes that do not overlap: the record is the
\* snapshot of the writer that has just completed
C35_LastWriterWinsUntorn ==
    [][\A s \in SessionIds :
          (/\ writing # NotWriting /\ writing.session.session_id = s
           /\ writing' = NotWriting /\ peer'.proc = peer.proc
           /\ ~writing.torn) =>
              disk'[s] = AsDict(sessions'[s])]_vars

\* both processes have appended a turn to the session and the record holds
\* the turn of the last writer only
C35_OtherTurnMissing ==
    \E s \in SessionIds :
        /\ ret.op = "add" /\ ret.value = TRUE /\ ret.sid = s
        /\ writing = NotWriting /\ peer.writing = NotWriting
        /\ sessions[s] # NoSession /\ peer.sessions[s] # NoSession
        /\ disk[s] = AsDict(sessions[s])
        /\ \E t \in Range(peer.sessions[s].turns) : t \notin Range(disk[s].turns)

\* two generate requests for one session have overlapped (each started
\* before the other had added its turn), both have reported success, and
\* the session is still there
BothSucceeded(s) ==
    /\ pc = "idle" /\ parked.pc = "idle"
    /\ out.status = "ok" /\ parked.out.status = "ok"
    /\ rq.sid = s /\ parked.rq.sid = s
    /\ rq.turns0 = parked.rq.turns0
    /\ sessions[s] # NoSession

TurnIds(turns) == {turns[i].turn_id : i \in 1 .. Len(turns)}

\* C36: when two generate requests of one process for the same session
\* overlap, with their model calls interleaved in any order, the turns of
\* both are in the session's turns and in its persisted record.
C36_BothTurnsKept ==
    \A s \in SessionIds :
        BothSucceeded(s) =>
            /\ {rq.turns0 + 1, rq.turns0 + 2} \subseteq TurnIds(sessions[s].turns)
            /\ disk[s] \notin {NoSession, Corrupt}
            /\ {rq.turns0 + 1, rq.turns0 + 2} \subseteq TurnIds(disk[s].turns)

\* the part of C36 about the cached session, and about the record when no
\* write of it has failed
C36_BothTurnsKeptInProcess ==
    \A s \in SessionIds :
        BothSucceeded(s) =>
            /\ {rq.turns0 + 1, rq.turns0 + 2} \subseteq TurnIds(sessions[s].turns)
            /\ ~lost[s] =>
                   /\ disk[s] \notin {NoSession, Corrupt}
                   /\ {rq.turns0 + 1, rq.turns0 + 2} \subseteq TurnIds(disk[s].turns)

\* both requests were inside their improvement loops at the same time
C36_Overlapped ==
    \E s \in SessionIds :
        /\ BothSucceeded(s) /\ ~lost[s]
        /\ rq.revises >= 1 /\ parked.rq.revises >= 1
        /\ rq.hist0 = << >> /\ parked.rq.hist0 = << >>

\* the records a request has stored in the history of session s
Stored(r, s) == IF r.cycle = "returned" /\ r.sid = s THEN r.iterations ELSE << >>

\* C37: a call of perform_improvement_cycle leaves the session's stored
\* history alone until its loop has ended and then extends it by exactly
\* its own records in their order; so the history a Revise step analyses
\* holds only records of calls that have ended, none of its own call, and
\* with overlapping calls the records of each call are contiguous in it.
C37_HistoryExtendedAtEnd ==
    /\ [][/\ parked' # parked => improvement_history' = improvement_history
          /\ parked' = parked =>
                IF rq.cycle = "running" /\ rq'.cycle = "returned"
                THEN improvement_history' =
                         [improvement_history EXCEPT ![rq.sid] = @ \o rq'.iterations]
                ELSE improvement_history' = improvement_history
          /\ (parked' = parked /\ pc' = "revise") =>
                improvement_history[rq.sid] \in
                    {rq.hist0, rq.hist0 \o Stored(parked.rq, rq.sid)}]_vars
    /\ [](\A s \in FirstSession :
            improvement_history[s] \in
                {Stored(rq, s) \o Stored(parked.rq, s), Stored(parked.rq, s) \o Stored(rq, s)})

\* a call is at the Revise step of its second iteration and the stored
\* history holds the two records of the other call, which began before this
\* call ended its first iteration, and no record of this call
C37_Witness ==
    /\ pc = "revise" /\ Len(rq.iterations) = 1 /\ rq.hist0 = << >>
    /\ parked.rq.cycle = "returned" /\ Len(parked.rq.iterations) = 2
    /\ parked.rq.hist0 = << >>
    /\ improvement_history[rq.sid] = parked.rq.iterations

\* a Revise step whose model call has failed ends: it is a step of the
\* request from pc = "revise" that produces no new text
FailedRevise == pc = "revise" /\ rq' # rq /\ rq'.texts = rq.texts

\* what C38 says of such a step
FailedReviseGoesOn ==
    /\ rq'.iterations =
           Append(rq.iterations,
                  ImprovementIteration(rq.iteration, rq.current, rq.reflection, rq.current))
    /\ rq'.current = rq.current
    /\ IF LoopContinues(rq.iteration, rq.n)
       THEN /\ pc' = "reflect"
            /\ rq'.iteration = rq.iteration + 1
            /\ rq'.reflected = rq.current
       ELSE /\ pc' = "idle"
            /\ rq'.cycle = "returned"
            /\ out'.text = rq.current

\* C38: the loop treats a Revise step whose model call failed like any
\* other: a record with improved_response = original_response is stored, the
\* iteration is used up, and, while iterations remain, the next Reflect is
\* on the same text.
C38_FailedReviseRecorded ==
    [][FailedRevise => FailedReviseGoesOn]_vars

\* the part of C38 about reflections whose issues are strings
C38_FailedReviseRecordedWellFormed ==
    [][(FailedRevise /\ ~RecordRaises(rq.reflection)) => FailedReviseGoesOn]_vars

C38_FailedReviseReached ==
    /\ pc = "reflect" /\ rq.iteration = 1 /\ rq.reflected = rq.initial
    /\ Len(rq.iterations) = 1
    /\ rq.iterations[1].improved_response = rq.iterations[1].original_response

\* thresholds below, at and above the score of a failed reflection
BoundaryThresholdArgs == {DefaultScore - 5, DefaultScore, DefaultScore + 5}

\* requests under thresholds around the default score
NextThreshold ==
    \/ nextId + 1 \in FirstSession /\ CreateSession(NoneStr, "ok") /\ UNCHANGED genVars
    \/ \E s \in FirstSession : RouteGenerate(s, TRUE)
    \/ \E ok \in BOOLEAN : GenerateReply(ok, PlainInput, "ok")
    \/ \E reply \in BasicReplies : ReflectReply(reply, PlainInput, "ok")
    \/ \E ok \in BOOLEAN : ReviseReply(ok, PlainInput, "ok")
    \/ \E t \in BoundaryThresholdArgs : SetQualityThreshold(t)
    \/ \E m \in IterationArgs : SetMaxIterations(m)

SpecThreshold == Init /\ [][NextThreshold]_vars

\* a Reflect step whose model call has failed ends
FailedReflect == pc = "reflect" /\ rq' # rq /\ rq'.lastReflect = "call_failed"

\* the current response is accepted: the loop ends and returns it
AcceptsCurrent ==
    /\ pc' = "idle"
    /\ rq'.cycle = "returned"
    /\ rq'.revises = rq.revises
    /\ rq'.iterations = rq.iterations
    /\ out'.text = rq.current

\* C39: a Reflect step whose model call failed (score 5.0) accepts the
\* current response exactly when min_acceptable_score <= 5.0; under any
\* higher threshold a Revise step follows: the model is asked to revise.
C39_FailedReflectAccepted ==
    [][FailedReflect =>
          IF min_acceptable_score <= DefaultScore
          THEN AcceptsCurrent
          ELSE pc' = "revise" /\ rq'.calls = rq.calls + 1]_vars

\* the same, where entering _generate_improved_response counts as the
\* Revise step, whether or not it gets as far as its model call
C39_FailedReflectAcceptedOrRevised ==
    [][FailedReflect =>
          IF min_acceptable_score <= DefaultScore
          THEN AcceptsCurrent
          ELSE /\ rq'.revises = rq.revises + 1
               /\ pc' = "revise" \/ rq'.cycle = "raised"]_vars

\* a failed reflection was accepted under a threshold equal to its score
C39_AcceptedAtDefault ==
    /\ pc = "idle" /\ rq.cycle = "returned" /\ rq.lastReflect = "call_failed"
    /\ min_acceptable_score = DefaultScore

\* a failed reflection under a higher threshold ended the request
C39_FailedReflectRaised ==
    /\ pc = "idle" /\ rq.cycle = "raised" /\ rq.lastReflect = "call_failed"
    /\ min_acceptable_score > DefaultScore

\* get_session_history after its get_session: None or the dict it builds
get_session_history(session) ==
    IF session = NoSession THEN NoSession
    ELSE [session_id |-> session.session_id,
          created_at |-> session.created_at,
          last_activity |-> session.last_activity,
          total_turns |-> Len(session.turns),
          turns |-> [k \in DOMAIN session.turns |-> session.turns[k].turn_id]]

GetSessionHistory(sid) ==
    /\ LET g == get_session(sessions, disk, sid, now)
       IN  /\ sessions' = g.sessions
           /\ disk' = g.disk
           /\ ret' = Ret("history", sid, get_session_history(g.session), "none")
    /\ prev' = sessions[sid]
    /\ UNCHANGED <<now, nextId, turnSeq, lost, faults>>

\* one session that is read in every way while the clock runs
NextReads ==
    \/ nextId + 1 \in FirstSession /\ CreateSession(NoneStr, "ok") /\ UNCHANGED genVars
    \/ \E s \in FirstSession :
            /\ turnSeq[s] < MaxFileTurns
            /\ AddConversationTurn(s, PlainInput, "ok")
            /\ UNCHANGED genVars
    \/ \E s \in FirstSession : GetSession(s) /\ UNCHANGED genVars
    \/ \E s \in FirstSession, c \in BOOLEAN : GetContextForLLM(s, c) /\ UNCHANGED genVars
    \/ \E s \in FirstSession : GetSessionHistory(s) /\ UNCHANGED genVars
    \/ \E u \in Users : GetAllSessions(u) /\ UNCHANGED genVars
    \/ \E s \in FirstSession, t \in Summaries, o \in SaveOutcomes :
            UpdateSessionSummary(s, t, o) /\ UNCHANGED genVars
    \/ Tick /\ UNCHANGED genVars
    \/ Restart /\ UNCHANGED genVars

SpecReads == Init /\ [][NextReads]_vars

\* the operations C40 says leave last_activity alone
ReadOps == {"get", "context", "history", "list", "summary"}

\* a step of one of them
ReadStep == ret' # ret /\ ret'.op \in ReadOps

\* the step leaves the last_activity of every session as it was: of a cached
\* session, of a session it loads from its record, and in a record it writes
LastActivityKept ==
    \A s \in SessionIds :
        /\ (sessions[s] # NoSession /\ sessions'[s] # NoSession)
               => sessions'[s].last_activity = sessions[s].last_activity
        /\ (sessions[s] = NoSession /\ sessions'[s] # NoSession)
               => sessions'[s].last_activity = disk[s].last_activity
        /\ (disk'[s] # disk[s] /\ disk'[s] \notin {NoSession, Corrupt})
               => disk'[s].last_activity = sessions'[s].last_activity

\* after a read of session s the cache holds it only if it is not expired
ReadFindsNoExpired ==
    (ret.op \in ReadOps \ {"list"} /\ ret.sid \in SessionIds)
        => \/ sessions[ret.sid] = NoSession
           \/ ~Expired(sessions[ret.sid], ret.at)

\* C40: get_session, get_context_for_llm, get_session_history,
\* get_all_sessions and update_session_summary leave last_activity as it
\* was, so that a session is expired 24 hours after its last appended turn
\* (or its creation) however often it is read.
C40_OnlyAppendsRefresh ==
    /\ [][ReadStep => LastActivityKept]_vars
    /\ []ReadFindsNoExpired

\* the first half of C40: the five operations leave last_activity as it was
C40_ReadsKeepLastActivity ==
    [][ReadStep => LastActivityKept]_vars

\* while the process lives, reads do not keep a session from expiring
C40_ExpiresInProcess ==
    [][(ReadStep /\ ret'.op # "list" /\ sessions[ret'.sid] # NoSession)
          => \/ sessions'[ret'.sid] = NoSession
             \/ ~Expired(sessions'[ret'.sid], now)]_vars

\* a session that has been read and summarised at hour 24 is gone at hour 36
C40_ExpiredAfterReads ==
    /\ ret.op = "context" /\ ret.at = 36 /\ ret.value = << >>
    /\ prev # NoSession /\ prev.session_summary # "" /\ prev.last_activity = 0

\* after a restart an expired session is read from its record
C40_ExpiredRead ==
    /\ ret.op = "history" /\ ret.value # NoSession
    /\ ret.at - ret.value.last_activity > session_timeout

====
